---------------------------- MODULE Spec2Model ----------------------------
(***************************************************************************)
(* Model of generate_surrogate_iaaft (src/generate_surrogate_iaaft.py).    *)
(*                                                                         *)
(* One call of the function is a run of the state machine.  The local      *)
(* variables of the function are the variables of the model, under their   *)
(* own names.  numpy arrays are cells of a heap, and a variable holds the  *)
(* address of the array it is bound to, so that an in-place operation      *)
(* (numpy.random.shuffle, x[order] = ...) is visible through every name    *)
(* bound to the same array and numpy.copy / numpy.sort / numpy.fft.irfft   *)
(* / numpy.vstack allocate a new one.                                      *)
(*                                                                         *)
(* Numbers.  Array elements are exact rationals: a cell stores integer     *)
(* numerators over the cell's positive denominator "den" (floating-point   *)
(* rounding, NaN and infinities are outside the model).  The amplitude     *)
(* spectrum |rfft(x)| is irrational in general; the model stores the       *)
(* squared magnitudes |X_k|^2, which are rational and determine the        *)
(* magnitudes.  The result of the spectrum-matching step (lines 110-113)   *)
(* is computed exactly for L = 2 and for an all-zero target spectrum; for  *)
(* L >= 3 it is a real vector that the model cannot compute, and since the *)
(* code reads it only through numpy.argsort (line 115) before overwriting  *)
(* it, the model lets it be any sequence of L values, which covers every   *)
(* order (ties included) the real vector can have.                         *)
(***************************************************************************)
EXTENDS Integers, Sequences, FiniteSets, TLC

\* ------------------------------------------------------------- bounds
MaxLen == 3      \* longest original_data enumerated
MaxM == 3        \* largest integer given as M
MaxTable == 6    \* most elements of a returned table (M times L)
MaxIter == 2     \* inner iterations followed per surrogate (the loop has no cap)

\* ------------------------------------------------- program constants
TolInv == 1000000    \* 1 / 1e-6, the convergence tolerance of line 86

\* the enumerated inputs: every sequence over Values, and one with distinct values
Values == {0, 1}
DistinctData == <<1, 5, 2>>

\* ------------------------------------------------------------ helpers
Range(f) == {f[i] : i \in DOMAIN f}

RECURSIVE SumSeq(_)
SumSeq(q) == IF q = <<>> THEN 0 ELSE Head(q) + SumSeq(Tail(q))

\* integer square root of a perfect square
Isqrt(n) == CHOOSE r \in 0..n : r * r = n

\* the permutations of 1..n
Perms(n) == {p \in [1..n -> 1..n] : \A i, j \in 1..n : p[i] = p[j] => i = j}

AllZero(x) == \A i \in DOMAIN x : x[i] = 0

\* ------------------------------------------------------------ the heap
\* A cell: type "ndarray" or "list" (a Python object that is no numpy array),
\* ndim, den (denominator of the elements), init (FALSE for numpy.empty_like),
\* data (a sequence of numerators; for ndim = 2 a sequence of rows).
Cell(nd, dn, d) == [type |-> "ndarray", ndim |-> nd, den |-> dn, init |-> TRUE, data |-> d]

ListCell == [type |-> "list", ndim |-> 0, den |-> 1, init |-> TRUE, data |-> <<>>]

Alloc(h) ==
  CHOOSE a \in 1..(Cardinality(DOMAIN h) + 1) :
    a \notin DOMAIN h /\ \A b \in 1..(a - 1) : b \in DOMAIN h

\* numpy.copy(x): a new array with the elements of x
CopyAlias(h, a) == [heap |-> h, addr |-> a]

CopyArray(h, a) ==
  LET n == Alloc(h) IN [heap |-> h @@ (n :> h[a]), addr |-> n]

\* a new array holding cell c
NewArray(h, c) ==
  LET n == Alloc(h) IN [heap |-> h @@ (n :> c), addr |-> n]

\* ------------------------------------------------------- numpy, exactly
\* numpy.sort(x): the k-th element is the value of rank k
NumpySort(x) ==
  [k \in 1..Len(x) |->
     CHOOSE v \in Range(x) :
       /\ Cardinality({i \in 1..Len(x) : x[i] < v}) < k
       /\ k <= Cardinality({i \in 1..Len(x) : x[i] <= v})]

\* numpy.argsort(x), 1-based: a permutation p with x[p[1]] <= ... <= x[p[n]].
\* The default kind is not stable, so equal elements may come in any order.
Argsorts(x) ==
  {p \in Perms(Len(x)) : \A k \in 1..(Len(x) - 1) : x[p[k]] <= x[p[k + 1]]}

\* x[order] = d: element order[k] of x receives d[k]
AssignAtStraight(x, order, d) == [i \in 1..Len(x) |-> d[order[i]]]

AssignAt(x, order, d) ==
  [i \in 1..Len(x) |-> d[CHOOSE k \in 1..Len(order) : order[k] = i]]

\* numpy.random.shuffle(x) with the permutation p drawn by the generator
Shuffled(x, p) == [i \in 1..Len(x) |-> x[p[i]]]

\* 2*cos(2*pi*j/n): an integer for n <= 4, the lengths the model enumerates
\* (for n = 5 it is irrational, so MaxLen cannot exceed 4)
TwoCos(j, n) ==
  CASE n = 1 -> 2
    [] n = 2 -> IF j = 0 THEN 2 ELSE -2
    [] n = 3 -> IF j = 0 THEN 2 ELSE -1
    [] n = 4 -> IF j = 0 THEN 2 ELSE IF j = 2 THEN -2 ELSE 0

\* circular autocorrelation of x at lag t
CircAutocorr(x, t) ==
  SumSeq([i \in 1..Len(x) |-> x[i] * x[((i - 1 + t) % Len(x)) + 1]])

\* numpy.absolute(numpy.fft.rfft(x)), squared: bin k (k = 0..L/2, stored at k+1)
\* has |X_k|^2 = sum over lags t of r(t)*cos(2*pi*k*t/L)
SqMagnitude(x) ==
  [k \in 1..((Len(x) \div 2) + 1) |->
     SumSeq([t \in 1..Len(x) |->
               CircAutocorr(x, t - 1) * TwoCos(((k - 1) * (t - 1)) % Len(x), Len(x))])
       \div 2]

\* cos(angle(X)) of a real bin X: angle(X) is 0 for X >= 0 and pi for X < 0
CosAngle(x) == IF x < 0 THEN -1 ELSE 1

\* dense rank patterns of length n: every weak order of n elements, once
RankPatterns(n) ==
  {c \in [1..n -> 1..n] : Range(c) = 1..Cardinality(Range(c))}

\* Lines 110-113: the arrays irfft(spectrum_magnitude_original * exp(i*angle(rfft(cand))), L)
\* can be, as cells.  cand: the candidate cell; sq: the squared target magnitudes.
\* For L >= 3 and a nonzero target the cell holds the ranks of the elements (a
\* dense rank pattern), one cell for each order the elements can be in.
SpectrumResults(cand, sq) ==
  LET x == cand.data
      n == Len(x)
  IN  IF AllZero(sq)
        THEN {Cell(1, cand.den, [i \in 1..n |-> 0])}
      ELSE IF n = 2
        THEN LET Y0 == Isqrt(sq[1]) * CosAngle(x[1] + x[2])
                 Y1 == Isqrt(sq[2]) * CosAngle(x[1] - x[2])
             IN  {Cell(1, 2 * cand.den, <<Y0 + Y1, Y0 - Y1>>)}
      ELSE {Cell(1, 1, c) : c \in RankPatterns(n)}

\* check_convergence (lines 83-89).  z / I with I = 0 is nan (z = 0) or inf
\* (z > 0) in numpy.float64 arithmetic, and neither is <= 1e-6.
SumSquares(x) == SumSeq([i \in 1..Len(x) |-> x[i] * x[i]])

SquaredDistance(x, y) ==
  SumSeq([i \in 1..Len(x) |-> (y[i] - x[i]) * (y[i] - x[i])])

check_convergence_NoGuard(sequence_this, sequence_prev) ==
  SquaredDistance(sequence_this, sequence_prev) * TolInv <= SumSquares(sequence_this)

check_convergence(sequence_this, sequence_prev) ==
  LET z == SquaredDistance(sequence_this, sequence_prev)
      I == SumSquares(sequence_this)
  IN  IF I = 0 THEN FALSE ELSE z * TolInv <= I

\* A Python value given as M: t is its type ("int", "float", "str", "None", "list",
\* or "nan" / "inf" for those floats); an int is v, a float is v/d, a str is the
\* numeral of v when d = 1 and no numeral when d = 0.
MArg(t, v, d) == [t |-> t, v |-> v, d |-> d]

\* int(M) (line 47): the integer, or the exception int() raises
IntConv(m) ==
  CASE m.t = "int"   -> [exc |-> "", val |-> m.v]
    [] m.t = "float" -> [exc |-> "",
                         val |-> IF m.v >= 0 THEN m.v \div m.d ELSE -((-m.v) \div m.d)]
    [] m.t = "str"   -> IF m.d = 1 THEN [exc |-> "", val |-> m.v]
                                   ELSE [exc |-> "ValueError", val |-> 0]
    [] m.t = "nan"   -> [exc |-> "ValueError", val |-> 0]
    [] m.t = "inf"   -> [exc |-> "OverflowError", val |-> 0]
    [] m.t = "None"  -> [exc |-> "TypeError", val |-> 0]
    [] m.t = "list"  -> [exc |-> "TypeError", val |-> 0]

\* ------------------------------------------------------ the function
\* A run r is a record of the function's arguments and locals:
\*   pc                       the block of the function that runs next
\*   heap                     the arrays
\*   caller_data              the caller's own reference to the array it passed
\*   original_data, detrend, verbose, M   parameters (original_data is rebound at
\*                            line 73, M at line 47)
\*   L, spectrum_magnitude_original, distribution_original, surrogate_data,
\*   iter, surrogate_timeseries, surrogate_timeseries_previous,
\*   order_elements, n_iter   locals; an address 0 is a name not yet bound
\*   seeded                   calls of numpy.random.seed() so far
\*   out                      what has been printed
\*   ret                      how the call ended: kind "none" (running), "False",
\*                            "array" (val: its address) or "raise" (exc)
Msg(m, a, b) == [msg |-> m, a |-> a, b |-> b]

Roots(r) ==
  {r.caller_data, r.original_data, r.spectrum_magnitude_original,
   r.distribution_original, r.surrogate_data, r.surrogate_timeseries,
   r.surrogate_timeseries_previous, r.ret.val} \ {0}

\* arrays no name refers to any more are freed
Collect(r) ==
  [r EXCEPT !.heap = [a \in (Roots(r) \cap DOMAIN r.heap) |-> r.heap[a]]]

\* print(...) then return False
Reject(r, m) ==
  [r EXCEPT !.pc = "done", !.out = Append(@, Msg(m, 0, 0)),
            !.ret = [kind |-> "False", val |-> 0, exc |-> ""]]

IsBool(b) == b \in {"True", "False"}

\* Lines 38-63: input validation, then the first message
ValidateOp(r) ==
  LET od == r.heap[r.original_data]
      conv == IntConv(r.M)
      withL == [r EXCEPT !.L = IF od.ndim = 1 THEN Len(od.data) ELSE 0]
      withM == [withL EXCEPT !.M = MArg("int", conv.val, 1)]
  IN  IF od.type # "ndarray" THEN Reject(r, "ERROR original_data")
      ELSE IF od.ndim # 1 THEN Reject(r, "ERROR original_data")
      ELSE IF conv.exc = "ValueError" THEN Reject(withL, "ERROR M")
      ELSE IF conv.exc # ""
        THEN [withL EXCEPT !.pc = "done",
                           !.ret = [kind |-> "raise", val |-> 0, exc |-> conv.exc]]
      ELSE IF conv.val < 1 THEN Reject(withM, "ERROR M")
      ELSE IF ~IsBool(r.detrend) THEN Reject(withM, "ERROR detrend")
      ELSE IF ~IsBool(r.verbose) THEN Reject(withM, "ERROR verbose")
      ELSE [withM EXCEPT !.pc = "detrend",
                         !.out = IF r.verbose = "True"
                                   THEN Append(@, Msg("Starting IAAFT routine", 0, 0))
                                   ELSE @]

\* Line 73: original_temp - time_idx*(xN-x0)/(L-1.0), over the denominator (L-1)*den
DetrendedWithOffset(x, n) ==
  [i \in 1..n |-> x[i] * (n - 1) - (x[1] * (n - 1) + (i - 1) * (x[n] - x[1]))]

DetrendedSlopeReversed(x, n) ==
  [i \in 1..n |-> x[i] * (n - 1) + (i - 1) * (x[n] - x[1])]

Detrended(x, n) ==
  [i \in 1..n |-> x[i] * (n - 1) - (i - 1) * (x[n] - x[1])]

\* Lines 65-73: detrend, if requested
DetrendOnlyIfVerbose(r) ==
  IF r.detrend = "True" /\ r.verbose = "True"
    THEN LET od == r.heap[r.original_data]
             new == NewArray(r.heap, Cell(1, od.den * (r.L - 1), Detrended(od.data, r.L)))
         IN  Collect([r EXCEPT !.pc = "analyze", !.heap = new.heap,
                               !.original_data = new.addr,
                               !.out = Append(@, Msg("Detrending time series", 0, 0))])
    ELSE [r EXCEPT !.pc = "analyze"]

DetrendOp(r) ==
  IF r.detrend = "True"
    THEN LET od == r.heap[r.original_data]
             original_temp == CopyArray(r.heap, r.original_data)
             new == NewArray(original_temp.heap,
                             Cell(1, od.den * (r.L - 1),
                                  Detrended(original_temp.heap[original_temp.addr].data, r.L)))
         IN  Collect([r EXCEPT !.pc = "analyze", !.heap = new.heap,
                               !.original_data = new.addr,
                               !.out = IF r.verbose = "True"
                                         THEN Append(@, Msg("Detrending time series", 0, 0))
                                         ELSE @])
    ELSE [r EXCEPT !.pc = "analyze"]

\* Lines 75-80: target spectrum, target distribution, the output array
AnalyzeOfArgument(r) ==
  LET od == r.heap[r.original_data]
      arg == r.heap[r.caller_data]
      sp == NewArray(r.heap, Cell(1, od.den * od.den, SqMagnitude(od.data)))
      di == NewArray(sp.heap, Cell(1, arg.den, NumpySort(arg.data)))
      sd == NewArray(di.heap, [od EXCEPT !.init = FALSE,
                                         !.data = [i \in 1..r.L |-> 0]])
  IN  Collect([r EXCEPT !.pc = "begin", !.heap = sd.heap,
                        !.spectrum_magnitude_original = sp.addr,
                        !.distribution_original = di.addr,
                        !.surrogate_data = sd.addr])

AnalyzeOp(r) ==
  LET od == r.heap[r.original_data]
      sp == NewArray(r.heap, Cell(1, od.den * od.den, SqMagnitude(od.data)))
      di == NewArray(sp.heap, Cell(1, od.den, NumpySort(od.data)))
      sd == NewArray(di.heap, [od EXCEPT !.init = FALSE,
                                         !.data = [i \in 1..r.L |-> 0]])
  IN  Collect([r EXCEPT !.pc = "begin", !.heap = sd.heap,
                        !.spectrum_magnitude_original = sp.addr,
                        !.distribution_original = di.addr,
                        !.surrogate_data = sd.addr])

\* Lines 92-105: start of surrogate number iter+1; p is the permutation the
\* freshly seeded generator draws
BeginOp(r, p) ==
  LET st == CopyArray(r.heap, r.original_data)
      sh == [st.heap EXCEPT ![st.addr].data = Shuffled(@, p)]
      pv == CopyArray(sh, st.addr)
  IN  Collect([r EXCEPT !.pc = "spectrum", !.heap = pv.heap,
                        !.seeded = @ + 1,
                        !.surrogate_timeseries = st.addr,
                        !.surrogate_timeseries_previous = pv.addr,
                        !.n_iter = 0,
                        !.out = IF r.verbose = "True"
                                  THEN Append(@, Msg("Surrogate number", r.iter + 1, r.M.v))
                                  ELSE @])

\* Lines 106-113: the spectrum-matching step; c is the array irfft returns
SpectrumOp(r, c) ==
  LET new == NewArray(r.heap, c)
  IN  Collect([r EXCEPT !.pc = "distribution", !.heap = new.heap,
                        !.n_iter = @ + 1,
                        !.surrogate_timeseries = new.addr])

\* Lines 115-116: the distribution-matching step; order is what argsort returns
DistributionOp(r, order) ==
  LET dist == r.heap[r.distribution_original]
  IN  [r EXCEPT !.pc = "check",
                !.order_elements = order,
                !.heap[r.surrogate_timeseries].data = AssignAt(@, order, dist.data),
                !.heap[r.surrogate_timeseries].den = dist.den]

\* Lines 118-121: leave the loop, or remember the candidate and go round again
CheckKeepPrevious(r) ==
  IF check_convergence(r.heap[r.surrogate_timeseries].data,
                       r.heap[r.surrogate_timeseries_previous].data)
    THEN [r EXCEPT !.pc = "append"]
    ELSE [r EXCEPT !.pc = "spectrum"]

CheckOp(r) ==
  IF check_convergence(r.heap[r.surrogate_timeseries].data,
                       r.heap[r.surrogate_timeseries_previous].data)
    THEN [r EXCEPT !.pc = "append"]
    ELSE LET pv == CopyArray(r.heap, r.surrogate_timeseries)
         IN  Collect([r EXCEPT !.pc = "spectrum", !.heap = pv.heap,
                               !.surrogate_timeseries_previous = pv.addr])

\* numpy.vstack((a, b)): a new two-dimensional array, the rows of a, then b
Rows(c) == IF c.ndim = 1 THEN <<c.data>> ELSE c.data

VStackReversed(a, b) == Cell(2, b.den, Rows(b) \o Rows(a))

VStack(a, b) == Cell(2, b.den, Rows(a) \o Rows(b))

\* Lines 123-131: the last message of the surrogate, and the output array
AppendOp(r) ==
  LET said == [r EXCEPT !.out = IF r.verbose = "True"
                                  THEN Append(@, Msg("Process converged after", r.n_iter, 0))
                                  ELSE @,
                        !.iter = @ + 1,
                        !.pc = IF r.iter + 1 < r.M.v THEN "begin" ELSE "return"]
  IN  IF r.iter = 0
        THEN Collect([said EXCEPT !.surrogate_data = r.surrogate_timeseries])
        ELSE LET new == NewArray(r.heap, VStack(r.heap[r.surrogate_data],
                                                r.heap[r.surrogate_timeseries]))
             IN  Collect([said EXCEPT !.heap = new.heap, !.surrogate_data = new.addr])

\* Line 132
ReturnOp(r) ==
  [r EXCEPT !.pc = "done",
            !.ret = [kind |-> "array", val |-> r.surrogate_data, exc |-> ""]]

\* -------------------------------------------------------------- state
VARIABLES
  pc, heap, caller_data, original_data, detrend, verbose, M, L,
  spectrum_magnitude_original, distribution_original, surrogate_data, iter,
  surrogate_timeseries, surrogate_timeseries_previous, order_elements, n_iter,
  seeded, out, ret,
  twin,        \* the same call with the other value of verbose, as a run record
  h_arg,       \* history: the array the caller passed, as it was at the call
  h_ref,       \* history: the reference sequence, as it was when analysed (line 76)
  h_spec,      \* history: spectrum_magnitude_original as computed (line 76)
  h_dist,      \* history: distribution_original as computed (line 77)
  h_penult,    \* history: the candidate at the end of the previous inner iteration
  h_missed,    \* history: an earlier iterate of this surrogate met the tolerance
  h_finished   \* history: the finished surrogates, in the order they were finished

prog == <<pc, heap, caller_data, original_data, detrend, verbose, M, L,
          spectrum_magnitude_original, distribution_original, surrogate_data, iter,
          surrogate_timeseries, surrogate_timeseries_previous, order_elements,
          n_iter, seeded, out, ret>>

hist == <<h_arg, h_ref, h_spec, h_dist, h_penult, h_missed, h_finished>>

vars == <<prog, twin, hist>>

\* the run, as a record
Cur ==
  [pc |-> pc,
   heap |-> heap,
   caller_data |-> caller_data,
   original_data |-> original_data,
   detrend |-> detrend,
   verbose |-> verbose,
   M |-> M,
   L |-> L,
   spectrum_magnitude_original |-> spectrum_magnitude_original,
   distribution_original |-> distribution_original,
   surrogate_data |-> surrogate_data,
   iter |-> iter,
   surrogate_timeseries |-> surrogate_timeseries,
   surrogate_timeseries_previous |-> surrogate_timeseries_previous,
   order_elements |-> order_elements,
   n_iter |-> n_iter,
   seeded |-> seeded,
   out |-> out,
   ret |-> ret]

\* the run becomes r
Commit(r) ==
  /\ pc' = r.pc
  /\ heap' = r.heap
  /\ caller_data' = r.caller_data
  /\ original_data' = r.original_data
  /\ detrend' = r.detrend
  /\ verbose' = r.verbose
  /\ M' = r.M
  /\ L' = r.L
  /\ spectrum_magnitude_original' = r.spectrum_magnitude_original
  /\ distribution_original' = r.distribution_original
  /\ surrogate_data' = r.surrogate_data
  /\ iter' = r.iter
  /\ surrogate_timeseries' = r.surrogate_timeseries
  /\ surrogate_timeseries_previous' = r.surrogate_timeseries_previous
  /\ order_elements' = r.order_elements
  /\ n_iter' = r.n_iter
  /\ seeded' = r.seeded
  /\ out' = r.out
  /\ ret' = r.ret

\* the run starts as r
Start(r) ==
  /\ pc = r.pc
  /\ heap = r.heap
  /\ caller_data = r.caller_data
  /\ original_data = r.original_data
  /\ detrend = r.detrend
  /\ verbose = r.verbose
  /\ M = r.M
  /\ L = r.L
  /\ spectrum_magnitude_original = r.spectrum_magnitude_original
  /\ distribution_original = r.distribution_original
  /\ surrogate_data = r.surrogate_data
  /\ iter = r.iter
  /\ surrogate_timeseries = r.surrogate_timeseries
  /\ surrogate_timeseries_previous = r.surrogate_timeseries_previous
  /\ order_elements = r.order_elements
  /\ n_iter = r.n_iter
  /\ seeded = r.seeded
  /\ out = r.out
  /\ ret = r.ret

\* ------------------------------------------------------------- inputs
DataSeqs == UNION {[1..n -> Values] : n \in 2..MaxLen} \cup {DistinctData}

DataCells ==
  {ListCell, Cell(2, 1, <<<<0, 1>>, <<1, 0>>>>)} \cup {Cell(1, 1, d) : d \in DataSeqs}

MArgs ==
  {MArg("int", n, 1) : n \in (-1)..MaxM}
    \cup {MArg("str", 1, 1), MArg("str", 0, 0), MArg("float", 1, 2),
          MArg("nan", 0, 0), MArg("inf", 0, 0), MArg("None", 0, 0), MArg("list", 0, 0)}

Flags == {"True", "False", "int"}

Other(v) == IF v = "True" THEN "False" ELSE IF v = "False" THEN "True" ELSE v

Call(cell, m, d, v) ==
  [pc |-> "validate", heap |-> (1 :> cell), caller_data |-> 1, original_data |-> 1,
   detrend |-> d, verbose |-> v, M |-> m, L |-> 0,
   spectrum_magnitude_original |-> 0, distribution_original |-> 0,
   surrogate_data |-> 0, iter |-> 0, surrogate_timeseries |-> 0,
   surrogate_timeseries_previous |-> 0, order_elements |-> <<>>, n_iter |-> 0,
   seeded |-> 0, out |-> <<>>, ret |-> [kind |-> "none", val |-> 0, exc |-> ""]]

NoCell == Cell(1, 1, <<>>)

Init ==
  \E cell \in DataCells, m \in MArgs, d \in Flags, v \in Flags :
    /\ IntConv(m).val * Len(cell.data) <= MaxTable
    /\ Start(Call(cell, m, d, v))
    /\ twin = Call(cell, m, d, Other(v))
    /\ h_arg = cell
    /\ h_ref = NoCell /\ h_spec = NoCell /\ h_dist = NoCell
    /\ h_penult = <<>> /\ h_missed = FALSE /\ h_finished = <<>>

\* ------------------------------------------------------------ actions
\* the convergence ratio z/I is defined and within the tolerance 1e-6
RatioWithinTol(this, prev) ==
  /\ SumSquares(this) > 0
  /\ SquaredDistance(this, prev) * TolInv <= SumSquares(this)

\* the twin takes the same step, with the same random draw
TwinStep(r) == twin' = IF twin.pc = pc THEN r ELSE twin

Validate ==
  /\ pc = "validate"
  /\ Commit(ValidateOp(Cur))
  /\ TwinStep(ValidateOp(twin))
  /\ UNCHANGED hist

Detrend ==
  /\ pc = "detrend"
  /\ Commit(DetrendOp(Cur))
  /\ TwinStep(DetrendOp(twin))
  /\ UNCHANGED hist

Analyze ==
  /\ pc = "analyze"
  /\ LET r == AnalyzeOp(Cur)
     IN  /\ Commit(r)
         /\ h_ref' = heap[original_data]
         /\ h_spec' = r.heap[r.spectrum_magnitude_original]
         /\ h_dist' = r.heap[r.distribution_original]
  /\ TwinStep(AnalyzeOp(twin))
  /\ UNCHANGED <<h_arg, h_penult, h_missed, h_finished>>

Begin ==
  /\ pc = "begin"
  /\ \E p \in Perms(L) :
       /\ Commit(BeginOp(Cur, p))
       /\ TwinStep(BeginOp(twin, p))
       /\ h_penult' = Shuffled(h_ref.data, p)
  /\ h_missed' = FALSE
  /\ UNCHANGED <<h_arg, h_ref, h_spec, h_dist, h_finished>>

SpectrumStep ==
  /\ pc = "spectrum"
  /\ n_iter < MaxIter
  /\ \E c \in SpectrumResults(heap[surrogate_timeseries],
                              heap[spectrum_magnitude_original].data) :
       /\ Commit(SpectrumOp(Cur, c))
       /\ TwinStep(SpectrumOp(twin, c))
  /\ UNCHANGED hist

DistributionStep ==
  /\ pc = "distribution"
  /\ \E order \in Argsorts(heap[surrogate_timeseries].data) :
       /\ Commit(DistributionOp(Cur, order))
       /\ TwinStep(DistributionOp(twin, order))
  /\ UNCHANGED hist

ConvergenceCheck ==
  /\ pc = "check"
  /\ LET r == CheckOp(Cur)
         this == heap[surrogate_timeseries].data
     IN  /\ Commit(r)
         /\ h_missed' = (h_missed \/ (r.pc # "append" /\ RatioWithinTol(this, h_penult)))
         /\ h_penult' = IF r.pc = "append" THEN h_penult ELSE this
  /\ TwinStep(CheckOp(twin))
  /\ UNCHANGED <<h_arg, h_ref, h_spec, h_dist, h_finished>>

AppendSurrogate ==
  /\ pc = "append"
  /\ Commit(AppendOp(Cur))
  /\ TwinStep(AppendOp(twin))
  /\ h_finished' = Append(h_finished, heap[surrogate_timeseries].data)
  /\ UNCHANGED <<h_arg, h_ref, h_spec, h_dist, h_penult, h_missed>>

Return ==
  /\ pc = "return"
  /\ Commit(ReturnOp(Cur))
  /\ TwinStep(ReturnOp(twin))
  /\ UNCHANGED hist

Next ==
  \/ Validate
  \/ Detrend
  \/ Analyze
  \/ Begin
  \/ SpectrumStep
  \/ DistributionStep
  \/ ConvergenceCheck
  \/ AppendSurrogate
  \/ Return

Spec == Init /\ [][Next]_vars

\* ----------------------------------------------------------- properties
Running == ret.kind = "none"

\* the targets have been computed (line 77 has run)
Analysed == distribution_original # 0

Candidate == heap[surrogate_timeseries].data

SameMultiset(a, b) ==
  /\ Len(a) = Len(b)
  /\ \A v \in Range(a) \cup Range(b) :
       Cardinality({i \in 1..Len(a) : a[i] = v}) = Cardinality({i \in 1..Len(b) : b[i] = v})

Ascending(d) == \A k \in 1..(Len(d) - 1) : d[k] <= d[k + 1]

\* the reference sequence the call is about: the argument, or with detrend the
\* argument less the line of line 73, as numerators over den
Reference ==
  IF detrend = "True"
    THEN Cell(1, L - 1, Detrended(h_arg.data, L))
    ELSE h_arg

\* C1: after every distribution-matching step, and in every finished and every
\* returned surrogate, the values are as a multiset exactly those of the reference
\* sequence (the original, or the detrended original), and sorted they are
\* distribution_original.
C1_DistributionInvariance ==
  /\ Analysed =>
       /\ h_ref = Reference
       /\ heap[distribution_original].den = Reference.den
       /\ Ascending(heap[distribution_original].data)
       /\ SameMultiset(heap[distribution_original].data, Reference.data)
  /\ pc \in {"check", "append"} =>
       /\ SameMultiset(Candidate, Reference.data)
       /\ heap[surrogate_timeseries].den = Reference.den
       /\ NumpySort(Candidate) = heap[distribution_original].data
  /\ \A k \in 1..Len(h_finished) : SameMultiset(h_finished[k], Reference.data)
  /\ ret.kind = "array" =>
       /\ heap[ret.val].den = Reference.den
       /\ \A k \in 1..Len(Rows(heap[ret.val])) :
            /\ SameMultiset(Rows(heap[ret.val])[k], Reference.data)
            /\ NumpySort(Rows(heap[ret.val])[k]) = heap[distribution_original].data

C1_Witness ==
  /\ ret.kind = "array"
  /\ detrend = "True"
  /\ M.v = 2
  /\ n_iter = 2
  /\ Reference.data # h_arg.data
  /\ Rows(heap[ret.val])[1] # Rows(heap[ret.val])[2]
  /\ Rows(heap[ret.val])[1] # Reference.data

C3_ExitCondition ==
  /\ (Running /\ pc \in {"spectrum", "distribution", "check", "append"}) =>
       heap[surrogate_timeseries_previous].data = h_penult
  /\ pc = "append" =>
       /\ n_iter >= 1
       /\ RatioWithinTol(Candidate, h_penult)
  /\ ~h_missed
  /\ (pc = "spectrum" /\ n_iter >= 1) => Candidate = h_penult

C3_Witness ==
  /\ pc = "append"
  /\ n_iter = 2
  /\ L = 3
  /\ ~AllZero(Candidate)

\* the call was given an argument the validation of lines 38-59 is to refuse
TwoDimensional == heap[caller_data].type = "ndarray" /\ heap[caller_data].ndim = 2

NonPositiveInteger == M.t = "int" /\ M.v < 1

NoNumericStep ==
  /\ original_data = caller_data
  /\ heap = (caller_data :> h_arg)
  /\ spectrum_magnitude_original = 0
  /\ distribution_original = 0
  /\ surrogate_data = 0
  /\ surrogate_timeseries = 0
  /\ seeded = 0
  /\ n_iter = 0
  /\ iter = 0

\* C4: a call with a two-dimensional original_data, a non-positive integer count,
\* or a non-boolean detrend or verbose returns False without any numeric step; and
\* in every call all four checks have passed before the first numeric step.
C4_InputRejection ==
  /\ (~Running /\ (TwoDimensional \/ NonPositiveInteger
                     \/ ~IsBool(detrend) \/ ~IsBool(verbose))) =>
       (ret.kind = "False" /\ NoNumericStep)
  /\ ~NoNumericStep =>
       /\ heap[caller_data].type = "ndarray" /\ heap[caller_data].ndim = 1
       /\ M.t = "int" /\ M.v >= 1
       /\ IsBool(detrend) /\ IsBool(verbose)

\* the value given as M cannot be converted to a positive integer
NotPositiveConvertible(m) == IntConv(m).exc # "" \/ IntConv(m).val < 1

\* C5: for every count that is not convertible to a positive integer the call ends
\* by returning the failure indicator, and no exception reaches the caller.
C5_NonConvertibleCount ==
  (~Running /\ NotPositiveConvertible(M)) => ret.kind = "False"

Linear(x) ==
  \A i \in 1..Len(x) : (x[i] - x[1]) * (Len(x) - 1) = (i - 1) * (x[Len(x)] - x[1])

Detrending == detrend = "True" /\ pc \notin {"validate", "detrend"} /\ Running

\* C6 as stated: with detrend the reference is
\* original[idx] - (x0 + idx*(xN - x0)/(L-1)), so a linear original becomes the
\* zero sequence and the first and last samples are 0.
C6_DetrendSubtractsLine ==
  Detrending =>
    /\ h_arg.data = heap[caller_data].data
    /\ heap[original_data].den = L - 1
    /\ heap[original_data].data = DetrendedWithOffset(h_arg.data, L)
    /\ heap[original_data].data[1] = 0
    /\ heap[original_data].data[L] = 0
    /\ Linear(h_arg.data) => AllZero(heap[original_data].data)

\* C6 as amended: with detrend the reference is original[idx] - idx*(xN - x0)/(L-1)
\* (the slope of the line through the first and last sample, without its
\* intercept x0), so the first and last samples both equal x0 and a linear
\* original a + b*i becomes the constant sequence a.
C6_DetrendSubtractsSlope ==
  Detrending =>
    LET x == h_arg.data
        y == heap[original_data].data
    IN  /\ heap[original_data].den = L - 1
        /\ Len(y) = L
        /\ \A i \in 1..L : y[i] = x[i] * (L - 1) - (i - 1) * (x[L] - x[1])
        /\ y[1] = x[1] * (L - 1)
        /\ y[L] = x[1] * (L - 1)
        /\ Linear(x) => \A i \in 1..L : y[i] = x[1] * (L - 1)

C6_Witness ==
  /\ Detrending
  /\ pc = "analyze"
  /\ Linear(h_arg.data)
  /\ h_arg.data[1] # h_arg.data[L]
  /\ ~AllZero(heap[original_data].data)

\* C7: a run with verbose = true and the run with verbose = false on the same
\* arguments and random draws are at the same place with the same accept/reject
\* decision, the same iteration counts and the same arrays; only what is printed
\* differs, and an accepted run with verbose = false prints nothing.
C7_VerboseNoInfluence ==
  IsBool(verbose) =>
    /\ twin.verbose = Other(verbose)
    /\ [twin EXCEPT !.verbose = verbose, !.out = out] = Cur
    /\ (verbose = "False" /\ ret.kind # "False") => out = <<>>

C7_Witness ==
  /\ ret.kind = "array"
  /\ verbose = "True"
  /\ detrend = "True"
  /\ n_iter = 2
  /\ twin.ret.kind = "array"
  /\ twin.out = <<>>
  /\ Len(out) > 2

\* C8: in the distribution-matching step the position of the k-th smallest value
\* of the candidate c (in the sorting permutation used) receives the k-th smallest
\* target value, so c[i] < c[j] implies s[i] <= s[j] for the new candidate s.
C8_RankPreservation ==
  [][pc = "distribution" =>
       LET c == heap[surrogate_timeseries].data
           s == heap'[surrogate_timeseries'].data
           d == heap[distribution_original].data
           o == order_elements'
       IN  /\ pc' = "check"
           /\ o \in Perms(L)
           /\ Ascending([k \in 1..L |-> c[o[k]]])
           /\ Ascending(d)
           /\ \A k \in 1..L : s[o[k]] = d[k]
           /\ \A i, j \in 1..L : c[i] < c[j] => s[i] <= s[j]]_vars

C8_Witness ==
  /\ pc = "check"
  /\ L = 3
  /\ order_elements = <<3, 1, 2>>
  /\ Candidate[3] < Candidate[1]
  /\ Candidate[1] < Candidate[2]

\* C9: no step changes the array the caller passed, and once computed the target
\* spectrum, the target distribution and the reference sequence keep their values
\* until the call returns.
C9_ReadOnly ==
  /\ heap[caller_data] = h_arg
  /\ Analysed =>
       /\ heap[original_data] = h_ref
       /\ heap[spectrum_magnitude_original] = h_spec
       /\ heap[distribution_original] = h_dist
  /\ (Analysed /\ detrend = "False") => original_data = caller_data
  /\ (Analysed /\ surrogate_timeseries # 0) =>
       surrogate_timeseries \notin {caller_data, original_data, distribution_original}

C9_Witness ==
  /\ ret.kind = "array"
  /\ M.v = 2
  /\ detrend = "False"
  /\ n_iter = 2
  /\ h_finished[1] # h_arg.data
  /\ h_finished[2] # h_arg.data

ZeroReference == Analysed /\ AllZero(h_ref.data)

=============================================================================
